---- MODULE Spec2Model ----
(***************************************************************************)
(* turing-foam (src/main.rs): a pool of self-modifying byte programs that  *)
(* are drawn in pairs, concatenated into a reaction buffer, run by a small *)
(* tape machine (execute) and written back.                                *)
(*                                                                         *)
(* Two specifications:                                                     *)
(*   Spec         TuringFoam::new followed by calls of TuringFoam::react,  *)
(*                each reaction running execute step by step;              *)
(*   SpecExecute  execute alone, on a tape, a start position and a step    *)
(*                budget drawn from bounded sets.                          *)
(*                                                                         *)
(* Indices are 0-based as in the source: a tape is a function on 0..N-1.   *)
(* Rust's integer overflow is build dependent (it panics when overflow     *)
(* checks are on, the default of the dev profile, and wraps otherwise);    *)
(* the build is the variable overflow_checks, chosen in Init.              *)
(***************************************************************************)
EXTENDS Integers, FiniteSets, Sequences, TLC

\* ------------------------------------------------------------------ bounds
\* main.rs:8 sets PROGRAM_LEN to 64; the model runs a scaled-down pool.
PROGRAM_LEN == 2
\* main.rs:167 builds 1 << 17 programs; the model builds NumPrograms.
NumPrograms == 2
\* main.rs:170 asks for 1 << 17 reactions per call; the model for 0..MaxReactions.
MaxReactions == 2
\* main.rs:169 calls react 1000 times; the model MaxCalls times.
MaxCalls == 1
\* main.rs:53 runs each reaction for 10_000 steps; the model for ReactBudget.
ReactBudget == 3
\* execute is generic in the tape length N; SpecExecute draws tapes of the
\* lengths 1..MaxTapeLen (N = 0 has no start position).
MaxTapeLen == 5
\* SpecExecute draws max_instructions from 0..MaxInstructions.
MaxInstructions == 4
\* Initial tapes and pools hold at most MaxNonZero bytes other than 0.
MaxNonZero == 2

\* --------------------------------------------------------------- constants
USIZE_BITS == 64
U8_MODULUS == 256
HEAD1_OFFSET == 16
LT == 60
GT == 62
LBRACE == 123
RBRACE == 125
MINUS == 45
PLUS == 43
DOT == 46
COMMA == 44
LBRACKET == 91
RBRACKET == 93

Byte == 0 .. (U8_MODULUS - 1)

Opcodes == {LT, GT, LBRACE, RBRACE, MINUS, PLUS, DOT, COMMA, LBRACKET, RBRACKET}

\* Byte values the initial tapes are filled with: every opcode, a no-op that
\* is not zero, and the two ends of the byte range.
FillBytes == Opcodes \cup {1, U8_MODULUS - 1}

\* ------------------------------------------------------------------- state
VARIABLES
    overflow_checks,      \* the build: TRUE when integer overflow panics
    pc,                   \* "idle" | "react" | "call" | "execute" | "returned"
                          \* | "panicked"
    programs,             \* TuringFoam.programs: slot -> program
    calls,                \* number of finished react calls
    num_reactions,        \* argument of the running react call
    reactions_done,       \* iterations of the reaction loop finished
    program0, program1,   \* the slots drawn by the current reaction
    num_timed_out, num_unmatched_branch,
    token_counts,         \* the HashMap of the statistics pass
    stats,                \* the TuringFoamStats the last react call returned
    tape,                 \* execute's tape (react's reaction buffer)
    ip, head0, head1,     \* execute's locals
    steps,                \* loop iterations of execute entered so far
    max_instructions,     \* execute's step budget
    status,               \* "Running" | "TimedOut" | "UnmatchedBranch" | "Panicked"
    tape_in, ip_in        \* the arguments execute was called with

vars == <<overflow_checks, pc, programs, calls, num_reactions, reactions_done,
          program0, program1, num_timed_out, num_unmatched_branch,
          token_counts, stats, tape, ip, head0, head1, steps,
          max_instructions, status, tape_in, ip_in>>

foamVars == <<programs, calls, num_reactions, reactions_done, program0,
              program1, num_timed_out, num_unmatched_branch, token_counts,
              stats>>

\* ----------------------------------------------------------------- helpers
TapeLen(t) == Cardinality(DOMAIN t)

\* [0; n], main.rs:42
ZeroTape(n) == [i \in 0 .. (n - 1) |-> 0]

\* 2^e mod n, by repeated doubling (2^64 itself is out of TLC's range).
RECURSIVE PowMod2(_, _)
PowMod2(e, n) == IF e = 0 THEN 1 % n ELSE (2 * PowMod2(e - 1, n)) % n

\* usize::MAX % n
UsizeMaxMod(n) == (PowMod2(USIZE_BITS, n) + n - 1) % n

\* (h - 1) % N on usize, main.rs:98/101/104.  -1 stands for the overflow panic.
DecMod(h, n, checks) ==
    IF h = 0
    THEN IF checks THEN -1 ELSE UsizeMaxMod(n)
    ELSE (h - 1) % n

\* (h + 1) % N, main.rs:107 and main.rs:160: h < N, so no overflow.
IncModNoReduce(h, n) == h + 1
IncMod(h, n) == (h + 1) % n

\* (ip + 16) % N, main.rs:93, where head1 starts.
Head1StartNoReduce(start, n) == start + HEAD1_OFFSET
Head1Start(start, n) == (start + HEAD1_OFFSET) % n

\* u8 `-= 1`, main.rs:110.  -1 stands for the overflow panic.
SubU8(c, checks) ==
    IF c = 0
    THEN IF checks THEN -1 ELSE (c - 1) % U8_MODULUS
    ELSE c - 1

\* u8 `+= 1`, main.rs:113.  -1 stands for the overflow panic.
AddU8(c, checks) ==
    IF c = U8_MODULUS - 1
    THEN IF checks THEN -1 ELSE (c + 1) % U8_MODULUS
    ELSE c + 1

\* tape[ip..].iter().position(..), main.rs:123-131: the offset from `from` of
\* the first index where the depth is back at 0, -1 for None.  j is the index
\* being visited, depth the closure's captured counter.
RECURSIVE ScanForward(_, _, _, _)
ScanForwardWraps(t, from, j, depth) ==
    IF j >= TapeLen(t) + from THEN -1
    ELSE LET c == t[j % TapeLen(t)]
             d == IF c = LBRACKET THEN depth + 1
                  ELSE IF c = RBRACKET THEN depth - 1
                  ELSE depth
         IN IF d = 0 THEN j - from ELSE ScanForward(t, from, j + 1, d)
ScanForward(t, from, j, depth) ==
    IF j >= TapeLen(t) THEN -1
    ELSE LET d == IF t[j] = LBRACKET THEN depth + 1
                  ELSE IF t[j] = RBRACKET THEN depth - 1
                  ELSE depth
         IN IF d = 0 THEN j - from ELSE ScanForward(t, from, j + 1, d)

\* tape[..=ip].iter().rev().position(..), main.rs:141-149.
RECURSIVE ScanBackward(_, _, _, _)
ScanBackwardNoneIsZero(t, from, j, depth) ==
    IF j < 0 THEN 0
    ELSE LET d == IF t[j] = RBRACKET THEN depth + 1
                  ELSE IF t[j] = LBRACKET THEN depth - 1
                  ELSE depth
         IN IF d = 0 THEN from - j ELSE ScanBackward(t, from, j - 1, d)
ScanBackward(t, from, j, depth) ==
    IF j < 0 THEN -1
    ELSE LET d == IF t[j] = RBRACKET THEN depth + 1
                  ELSE IF t[j] = LBRACKET THEN depth - 1
                  ELSE depth
         IN IF d = 0 THEN from - j ELSE ScanBackward(t, from, j - 1, d)

\* main.rs:122, the test that makes `[` scan.
ForwardTakenNegated(t, h0) == t[h0] # 0
ForwardTaken(t, h0) == t[h0] = 0

\* main.rs:140, the test that makes `]` scan.
BackwardTakenNegated(t, h0) == t[h0] = 0
BackwardTaken(t, h0) == t[h0] # 0

\* main.rs:95, `for _ in 0..max_instructions`: is there another iteration?
InBudgetOffByOne(n, max) == n <= max
InBudget(n, max) == n < max

\* tape[dst] = tape[src], main.rs:116 and main.rs:119.
CopyCellReversed(t, dst, src) == [t EXCEPT ![src] = t[dst]]
CopyCell(t, dst, src) == [t EXCEPT ![dst] = t[src]]

Continue(t, i, h0, h1) ==
    [outcome |-> "Continue", tape |-> t, ip |-> i, head0 |-> h0, head1 |-> h1]

Stop(how, t, i, h0, h1) ==
    [outcome |-> how, tape |-> t, ip |-> i, head0 |-> h0, head1 |-> h1]

\* The match of main.rs:96-158 on the byte at ip: the locals after it (before
\* the advance of ip), or the way the iteration leaves the function.
Dispatch(t, i, h0, h1, checks) ==
    LET n == TapeLen(t)
        op == t[i]
    IN  CASE op = LT \/ op = GT ->
                LET h == DecMod(h0, n, checks)
                IN IF h = -1 THEN Stop("Panicked", t, i, h0, h1)
                   ELSE Continue(t, i, h, h1)
          [] op = LBRACE ->
                LET h == DecMod(h1, n, checks)
                IN IF h = -1 THEN Stop("Panicked", t, i, h0, h1)
                   ELSE Continue(t, i, h0, h)
          [] op = RBRACE -> Continue(t, i, h0, IncMod(h1, n))
          [] op = MINUS ->
                LET c == SubU8(t[h0 % n], checks)
                IN IF c = -1 THEN Stop("Panicked", t, i, h0, h1)
                   ELSE Continue([t EXCEPT ![h0 % n] = c], i, h0, h1)
          [] op = PLUS ->
                LET c == AddU8(t[h0 % n], checks)
                IN IF c = -1 THEN Stop("Panicked", t, i, h0, h1)
                   ELSE Continue([t EXCEPT ![h0 % n] = c], i, h0, h1)
          [] op = DOT -> Continue(CopyCell(t, h1 % n, h0 % n), i, h0, h1)
          [] op = COMMA -> Continue(CopyCell(t, h0 % n, h1 % n), i, h0, h1)
          [] op = LBRACKET ->
                IF ForwardTaken(t, h0)
                THEN LET offset == ScanForward(t, i, i, 0)
                     IN IF offset = -1
                        THEN Stop("UnmatchedBranch", t, i, h0, h1)
                        ELSE Continue(t, i + offset, h0, h1)
                ELSE Continue(t, i, h0, h1)
          [] op = RBRACKET ->
                IF BackwardTaken(t, h0)
                THEN LET offset == ScanBackward(t, i, i, 0)
                     IN IF offset = -1
                        THEN Stop("UnmatchedBranch", t, i, h0, h1)
                        ELSE Continue(t, i - offset, h0, h1)
                ELSE Continue(t, i, h0, h1)
          [] OTHER -> Continue(t, i, h0, h1)

\* ---------------------------------------------------------------- execute
\* main.rs:92-93, the entry of execute.
EnterExecute(t, start, max) ==
    /\ tape' = t
    /\ tape_in' = t
    /\ ip' = start
    /\ ip_in' = start
    /\ head0' = start
    /\ head1' = Head1Start(start, TapeLen(t))
    /\ steps' = 0
    /\ max_instructions' = max
    /\ status' = "Running"

\* One iteration of the loop of main.rs:95-161.
ExecuteStep ==
    /\ pc = "execute"
    /\ InBudget(steps, max_instructions)
    /\ LET r == Dispatch(tape, ip, head0, head1, overflow_checks)
       IN  /\ steps' = steps + 1
           /\ tape' = r.tape
           /\ head0' = r.head0
           /\ head1' = r.head1
           /\ IF r.outcome = "Continue"
              THEN /\ ip' = IncMod(r.ip, TapeLen(tape))
                   /\ status' = status
                   /\ pc' = pc
              ELSE /\ ip' = r.ip
                   /\ status' = r.outcome
                   /\ pc' = IF r.outcome = "Panicked" THEN "panicked"
                                                       ELSE "returned"
    /\ UNCHANGED <<overflow_checks, foamVars, max_instructions, tape_in, ip_in>>

\* main.rs:163, the loop is over.
ExecuteTimedOut ==
    /\ pc = "execute"
    /\ ~InBudget(steps, max_instructions)
    /\ status' = "TimedOut"
    /\ pc' = "returned"
    /\ UNCHANGED <<overflow_checks, foamVars, tape, ip, head0, head1, steps,
                   max_instructions, tape_in, ip_in>>

\* execute has returned: its locals and arguments are gone.
LeaveExecute ==
    /\ ip' = 0
    /\ head0' = 0
    /\ head1' = 0
    /\ steps' = 0
    /\ max_instructions' = 0
    /\ status' = "Running"
    /\ tape_in' = ZeroTape(TapeLen(tape))
    /\ ip_in' = 0

\* Tapes of length n with at most MaxNonZero bytes other than 0.
SparseTapes(n) ==
    { [i \in 0 .. (n - 1) |-> IF i \in DOMAIN f THEN f[i] ELSE 0] :
        f \in UNION { [S -> FillBytes] :
                        S \in { T \in SUBSET (0 .. (n - 1)) :
                                  Cardinality(T) <= MaxNonZero } } }

NoStats == [num_unique_tokens |-> 0, num_timed_out |-> 0,
            num_unmatched_branch |-> 0]

InitExecute ==
    /\ overflow_checks \in BOOLEAN
    /\ pc = "call"
    /\ programs = <<>>
    /\ calls = 0
    /\ num_reactions = 0
    /\ reactions_done = 0
    /\ program0 = 0
    /\ program1 = 0
    /\ num_timed_out = 0
    /\ num_unmatched_branch = 0
    /\ token_counts = <<>>
    /\ stats = NoStats
    /\ tape \in UNION { SparseTapes(n) : n \in 1 .. MaxTapeLen }
    /\ tape_in = tape
    /\ ip_in \in DOMAIN tape
    /\ ip = 0
    /\ head0 = 0
    /\ head1 = 0
    /\ steps = 0
    /\ max_instructions \in 0 .. MaxInstructions
    /\ status = "Running"

\* execute is called with the drawn arguments and sets up its locals,
\* main.rs:87-93.
ExecuteCall ==
    /\ pc = "call"
    /\ EnterExecute(tape_in, ip_in, max_instructions)
    /\ pc' = "execute"
    /\ UNCHANGED <<overflow_checks, foamVars>>

NextExecute == ExecuteCall \/ ExecuteStep \/ ExecuteTimedOut

SpecExecute == InitExecute /\ [][NextExecute]_vars

\* ------------------------------------------------------------- TuringFoam
\* &t[lo..hi]
Slice(t, lo, hi) == [i \in 0 .. (hi - lo - 1) |-> t[lo + i]]

\* dst[lo..lo+len].copy_from_slice(src), main.rs:50-51 and 62-63: the cells
\* of dst from lo on take the bytes of src, dst keeps its length.  (The
\* lengths always agree here, so copy_from_slice's length check never fails.)
CopyFromSliceExtends(dst, lo, src) ==
    [i \in 0 .. (TapeLen(dst) + TapeLen(src) - 1) |->
        IF i < TapeLen(dst) THEN dst[i] ELSE src[i - TapeLen(dst)]]
CopyFromSlice(dst, lo, src) ==
    [i \in DOMAIN dst |->
        IF lo <= i /\ i < lo + TapeLen(src) THEN src[i - lo] ELSE dst[i]]

\* &reaction[..PROGRAM_LEN], main.rs:62
FirstHalf(t) == Slice(t, 0, PROGRAM_LEN)

\* &reaction[PROGRAM_LEN..], main.rs:63
SecondHalfIsFirst(t) == Slice(t, 0, PROGRAM_LEN)
SecondHalf(t) == Slice(t, PROGRAM_LEN, TapeLen(t))

\* main.rs:50-51: the reaction buffer filled from slots a and b.
FillReaction(reaction, progs, a, b) ==
    CopyFromSlice(CopyFromSlice(reaction, 0, progs[a]), PROGRAM_LEN, progs[b])

\* main.rs:62-63: slot a is written first, slot b second.
WriteBackSecondFirst(progs, a, b, reaction) ==
    LET second == [progs EXCEPT ![b] = CopyFromSlice(@, 0, SecondHalf(reaction))]
    IN  [second EXCEPT ![a] = CopyFromSlice(@, 0, FirstHalf(reaction))]
WriteBackToNeighbour(progs, a, b, reaction) ==
    LET next == (a + 1) % Cardinality(DOMAIN progs)
        first == [progs EXCEPT ![a] = CopyFromSlice(@, 0, FirstHalf(reaction))]
    IN  [first EXCEPT ![next] = CopyFromSlice(@, 0, SecondHalf(reaction))]
WriteBack(progs, a, b, reaction) ==
    LET first == [progs EXCEPT ![a] = CopyFromSlice(@, 0, FirstHalf(reaction))]
    IN  [first EXCEPT ![b] = CopyFromSlice(@, 0, SecondHalf(reaction))]

\* *token_counts.entry(k).or_default() += 1, main.rs:70
BumpEntry(counts, k) ==
    IF k \in DOMAIN counts
    THEN [counts EXCEPT ![k] = @ + 1]
    ELSE [j \in DOMAIN counts \cup {k} |-> IF j = k THEN 1 ELSE counts[j]]

\* The inner loop of main.rs:69-71 from position i on; the key is
\* (i as u8, *c).
RECURSIVE CountProgram(_, _, _)
CountProgramSkipsFirst(counts, program, i) ==
    IF i >= TapeLen(program) THEN counts
    ELSE IF i = 0 THEN CountProgram(counts, program, 1)
    ELSE CountProgram(BumpEntry(counts, <<i % U8_MODULUS, program[i]>>),
                      program, i + 1)
CountProgram(counts, program, i) ==
    IF i >= TapeLen(program) THEN counts
    ELSE CountProgram(BumpEntry(counts, <<i % U8_MODULUS, program[i]>>),
                      program, i + 1)

\* The outer loop of main.rs:68-72 from slot p on.
RECURSIVE CountPrograms(_, _, _)
CountPrograms(counts, progs, p) ==
    IF p >= Cardinality(DOMAIN progs) THEN counts
    ELSE CountPrograms(CountProgram(counts, progs[p], 0), progs, p + 1)

\* TuringFoam::new, main.rs:23-35: num_programs random programs.
Init ==
    /\ overflow_checks \in BOOLEAN
    /\ pc = "idle"
    /\ \E flat \in SparseTapes(NumPrograms * PROGRAM_LEN) :
          programs = [p \in 0 .. (NumPrograms - 1) |->
                        Slice(flat, p * PROGRAM_LEN, (p + 1) * PROGRAM_LEN)]
    /\ calls = 0
    /\ num_reactions = 0
    /\ reactions_done = 0
    /\ program0 = 0
    /\ program1 = 0
    /\ num_timed_out = 0
    /\ num_unmatched_branch = 0
    /\ token_counts = <<>>
    /\ stats = NoStats
    /\ tape = ZeroTape(2 * PROGRAM_LEN)
    /\ tape_in = tape
    /\ ip = 0
    /\ ip_in = 0
    /\ head0 = 0
    /\ head1 = 0
    /\ steps = 0
    /\ max_instructions = 0
    /\ status = "Running"

\* main.rs:37-44: react is called (main.rs:170) and sets up its locals.
ReactCall ==
    /\ pc = "idle"
    /\ calls < MaxCalls
    /\ \E n \in 0 .. MaxReactions : num_reactions' = n
    /\ reactions_done' = 0
    /\ tape' = ZeroTape(2 * PROGRAM_LEN)
    /\ num_timed_out' = 0
    /\ num_unmatched_branch' = 0
    /\ pc' = "react"
    /\ UNCHANGED <<overflow_checks, programs, calls, program0, program1,
                   token_counts, stats, ip, head0, head1, steps,
                   max_instructions, status, tape_in, ip_in>>

\* main.rs:46-53: draw two slots and a start position, fill the reaction
\* buffer and enter execute.
ReactSample ==
    /\ pc = "react"
    /\ reactions_done < num_reactions
    /\ \E a \in DOMAIN programs, b \in DOMAIN programs,
          start \in 0 .. (PROGRAM_LEN - 1) :
          /\ program0' = a
          /\ program1' = b
          /\ EnterExecute(FillReaction(tape, programs, a, b), start,
                          ReactBudget)
    /\ pc' = "execute"
    /\ UNCHANGED <<overflow_checks, programs, calls, num_reactions,
                   reactions_done, num_timed_out, num_unmatched_branch,
                   token_counts, stats>>

\* One arm of the match of main.rs:53-60: the counter of the outcome `arm`
\* after execute returned `result`.
TallyEveryArm(count, result, arm) == count + 1
Tally(count, result, arm) == IF result = arm THEN count + 1 ELSE count

\* main.rs:53-64: tally execute's result and write the halves back.
ReactWriteBack ==
    /\ pc = "returned"
    /\ num_timed_out' = Tally(num_timed_out, status, "TimedOut")
    /\ num_unmatched_branch' =
          Tally(num_unmatched_branch, status, "UnmatchedBranch")
    /\ programs' = WriteBack(programs, program0, program1, tape)
    /\ reactions_done' = reactions_done + 1
    /\ LeaveExecute
    /\ pc' = "react"
    /\ UNCHANGED <<overflow_checks, calls, num_reactions, program0, program1,
                   token_counts, stats, tape>>

\* main.rs:66-78: the statistics pass and the return of react, whose locals
\* are gone afterwards; token_counts and stats keep what the pass built.
ReactStats ==
    /\ pc = "react"
    /\ reactions_done = num_reactions
    /\ token_counts' = CountPrograms(<<>>, programs, 0)
    /\ stats' = [num_unique_tokens |-> Cardinality(DOMAIN token_counts'),
                 num_timed_out |-> num_timed_out,
                 num_unmatched_branch |-> num_unmatched_branch]
    /\ calls' = calls + 1
    /\ num_reactions' = 0
    /\ reactions_done' = 0
    /\ program0' = 0
    /\ program1' = 0
    /\ num_timed_out' = 0
    /\ num_unmatched_branch' = 0
    /\ tape' = ZeroTape(2 * PROGRAM_LEN)
    /\ pc' = "idle"
    /\ UNCHANGED <<overflow_checks, programs, ip, head0, head1, steps,
                   max_instructions, status, tape_in, ip_in>>

Next ==
    \/ ReactCall
    \/ ReactSample
    \/ ExecuteStep
    \/ ExecuteTimedOut
    \/ ReactWriteBack
    \/ ReactStats

Spec == Init /\ [][Next]_vars

\* ================================================================== claims
NoOp(c) == c \notin Opcodes

\* A byte no initial tape holds: the interpreter wrote it.
Rewritten(t) == \E i \in DOMAIN t : t[i] \notin FillBytes \cup {0}

Min(a, b) == IF a <= b THEN a ELSE b

RECURSIVE SumCounts(_)
SumCounts(counts) ==
    IF DOMAIN counts = {} THEN 0
    ELSE LET k == CHOOSE j \in DOMAIN counts : TRUE
         IN counts[k] + SumCounts([j \in DOMAIN counts \ {k} |-> counts[j]])

\* C1 (SpecExecute): execute never enters more than max_instructions
\* iterations, never aborts, and returns TimedOut or UnmatchedBranch only.
\* Violated: with overflow checks on, `<` at head0 = 0 panics.
C1_OnlyTimedOutOrUnmatched ==
    /\ steps <= max_instructions
    /\ pc # "panicked"
    /\ status # "Panicked"
    /\ pc = "returned" => status \in {"TimedOut", "UnmatchedBranch"}

\* C2 (SpecExecute): a step that executes `<` or `>` with head0 = 0, or `{`
\* with head1 = 0, leaves that cursor at N-1 and does not panic.
\* Violated: `head0 - 1` overflows usize and panics when overflow checks are on.
C2_DecrementAtZeroWraps ==
    [][(pc = "execute" /\ steps < max_instructions) =>
          /\ (tape[ip] \in {LT, GT} /\ head0 = 0) =>
                (pc' # "panicked" /\ head0' = TapeLen(tape) - 1)
          /\ (tape[ip] = LBRACE /\ head1 = 0) =>
                (pc' # "panicked" /\ head1' = TapeLen(tape) - 1)]_vars

\* C3 (SpecExecute): a step that executes `-` on a cell holding 0 leaves 255
\* there, one that executes `+` on a cell holding 255 leaves 0, neither
\* panics, and every byte of the tape stays in 0..255.
\* Violated: `-= 1` / `+= 1` on u8 panic when overflow checks are on.
C3_ByteArithmeticWraps ==
    [][(pc = "execute" /\ steps < max_instructions) =>
          /\ (tape[ip] = MINUS /\ tape[head0] = 0) =>
                (pc' # "panicked" /\ tape'[head0] = U8_MODULUS - 1)
          /\ (tape[ip] = PLUS /\ tape[head0] = U8_MODULUS - 1) =>
                (pc' # "panicked" /\ tape'[head0] = 0)
          /\ \A i \in DOMAIN tape' : tape'[i] \in Byte]_vars

\* C4 (Spec): the pool always has the slots it was constructed with, and
\* every program the length it was constructed with.
C4_PoolShapeInvariant ==
    /\ DOMAIN programs = 0 .. (NumPrograms - 1)
    /\ \A p \in DOMAIN programs : DOMAIN programs[p] = 0 .. (PROGRAM_LEN - 1)

\* Witness of C4: two reactions are over and one of them rewrote a slot.
C4_Witness ==
    /\ pc = "react"
    /\ reactions_done >= 2
    /\ \E p \in DOMAIN programs : Rewritten(programs[p])

\* Slot p holds the bytes of the reaction buffer t from index lo on.
HoldsBufferFrom(p, t, lo) ==
    /\ DOMAIN programs[p] = 0 .. (PROGRAM_LEN - 1)
    /\ \A i \in 0 .. (PROGRAM_LEN - 1) : programs[p][i] = t[lo + i]

\* C5 as stated (Spec): after each reaction slot a holds the first half and
\* slot b the second half of the reaction buffer.
\* Violated when a = b: the second write overwrites the first.
C5_BothHalvesWrittenBack ==
    (pc = "react" /\ reactions_done > 0) =>
        /\ HoldsBufferFrom(program0, tape, 0)
        /\ HoldsBufferFrom(program1, tape, PROGRAM_LEN)

\* C5 amended (Spec): after each reaction slot b holds the second half of the
\* reaction buffer, and slot a holds the first half when a # b.
C5_HalvesWrittenBack ==
    (pc = "react" /\ reactions_done > 0) =>
        /\ HoldsBufferFrom(program1, tape, PROGRAM_LEN)
        /\ program0 # program1 => HoldsBufferFrom(program0, tape, 0)

\* Witness of C5: a reaction on two different slots has been written back,
\* from a buffer the interpreter rewrote and whose halves differ.
C5_Witness ==
    /\ pc = "react"
    /\ reactions_done > 0
    /\ program0 # program1
    /\ Rewritten(tape)
    /\ \E i \in 0 .. (PROGRAM_LEN - 1) : tape[i] # tape[PROGRAM_LEN + i]

\* The buffer of C6: `[` at position 0 and no other recognized byte.
LoneOpenAtZero(t) ==
    /\ t[0] = LBRACKET
    /\ \A i \in DOMAIN t \ {0} : NoOp(t[i])

\* C6 as stated (SpecExecute): on such a buffer, with head0 addressing a zero
\* byte, execute returns UnmatchedBranch on its first step whatever the
\* budget.
\* Violated: head0 starts at the start position, so it addresses a zero byte
\* only when the start is not 0, and then the `[` is not the first step.
C6_LoneOpenFailsOnFirstStep ==
    (pc = "returned" /\ LoneOpenAtZero(tape_in) /\ tape_in[ip_in] = 0) =>
        (status = "UnmatchedBranch" /\ steps = 1)

\* C6 amended (SpecExecute): on such a buffer, started at a position s that
\* holds a zero byte (so s # 0), execute returns UnmatchedBranch on step
\* N - s + 1, the one that executes the `[`, when the budget is at least
\* N - s + 1, and TimedOut after the whole budget otherwise; the buffer is
\* unchanged.
C6_LoneOpenFailsWhenReached ==
    (pc = "returned" /\ LoneOpenAtZero(tape_in) /\ tape_in[ip_in] = 0) =>
        LET reach == TapeLen(tape_in) - ip_in + 1
        IN  /\ tape = tape_in
            /\ IF max_instructions >= reach
               THEN status = "UnmatchedBranch" /\ steps = reach
               ELSE status = "TimedOut" /\ steps = max_instructions

\* Witness of C6: such a run has reached the `[` and failed there.
C6_Witness ==
    /\ pc = "returned"
    /\ LoneOpenAtZero(tape_in)
    /\ tape_in[ip_in] = 0
    /\ status = "UnmatchedBranch"
    /\ steps > 1

\* The tape of C7, seen from ip: the only `]` is at ip and no `[` is below it.
LoneCloseAt(t, i) ==
    /\ t[i] = RBRACKET
    /\ \A j \in DOMAIN t \ {i} : t[j] # RBRACKET
    /\ \A j \in 0 .. (i - 1) : t[j] # LBRACKET

\* C7 (SpecExecute): a step that executes a lone `]` with no `[` at a lower
\* index while head0 addresses a nonzero byte returns UnmatchedBranch at
\* once.
C7_LoneCloseFails ==
    [][(/\ pc = "execute"
        /\ steps < max_instructions
        /\ LoneCloseAt(tape, ip)
        /\ tape[head0] # 0)
       => (pc' = "returned" /\ status' = "UnmatchedBranch")]_vars

\* Witness of C7: such a `]` was executed, after at least one other step,
\* and execute returned UnmatchedBranch (ip, head0 and the tape are as the
\* failing step found them).
C7_Witness ==
    /\ pc = "returned"
    /\ status = "UnmatchedBranch"
    /\ LoneCloseAt(tape, ip)
    /\ tape[head0] # 0
    /\ steps >= 2

\* C8 (SpecExecute): with max_instructions = 0 execute does not panic, leaves
\* the tape as it was given, and returns TimedOut.
C8_ZeroBudget ==
    max_instructions = 0 =>
        /\ pc # "panicked"
        /\ tape = tape_in
        /\ steps = 0
        /\ pc = "returned" => status = "TimedOut"

\* Witness of C8: a zero-budget run has returned on a tape whose first step
\* would have changed it.
C8_Witness ==
    /\ pc = "returned"
    /\ max_instructions = 0
    /\ tape_in[ip_in] = COMMA
    /\ tape_in[(ip_in + HEAD1_OFFSET) % TapeLen(tape_in)] # COMMA
    /\ tape = tape_in

\* C9 (SpecExecute): a tape of no-op bytes only, run with budget k, returns
\* TimedOut after exactly k steps with the tape unchanged.
C9_NoOpsRunWholeBudget ==
    (pc = "returned" /\ \A i \in DOMAIN tape_in : NoOp(tape_in[i])) =>
        /\ status = "TimedOut"
        /\ steps = max_instructions
        /\ tape = tape_in

\* Witness of C9: a tape of no-ops, not all zero, has run the largest budget.
C9_Witness ==
    /\ pc = "returned"
    /\ \A i \in DOMAIN tape_in : NoOp(tape_in[i])
    /\ \E i \in DOMAIN tape_in : tape_in[i] # 0
    /\ max_instructions = MaxInstructions
    /\ steps = MaxInstructions
    /\ TapeLen(tape_in) > 1

\* C10 (Spec): after a statistics pass the counts sum to pool_size *
\* program_length, and num_unique_tokens, the number of keys, is at most
\* min(pool_size * program_length, 256 * program_length).
C10_HistogramTotals ==
    calls > 0 =>
        LET cells == Cardinality(DOMAIN programs) * PROGRAM_LEN
        IN  /\ SumCounts(token_counts) = cells
            /\ stats.num_unique_tokens = Cardinality(DOMAIN token_counts)
            /\ stats.num_unique_tokens
                 <= Min(cells, U8_MODULUS * PROGRAM_LEN)

\* Witness of C10: a pass after a reaction that rewrote the pool counted some
\* key more than once and some position under more than one key.
C10_Witness ==
    /\ calls > 0
    /\ stats.num_timed_out + stats.num_unmatched_branch > 0
    /\ \E p \in DOMAIN programs : Rewritten(programs[p])
    /\ \E k \in DOMAIN token_counts : token_counts[k] > 1
    /\ \E k \in DOMAIN token_counts, j \in DOMAIN token_counts :
          k[1] = j[1] /\ k[2] # j[2]

\* C12 (SpecExecute): a step that executes `<` or `>` moves head0 back by one
\* position circularly and changes neither head1 nor the tape.
\* Violated: with overflow checks on, `head0 - 1` at head0 = 0 panics, for
\* `>` as for `<` (the defect of C2).
C12_BothMoveHead0Back ==
    [][(pc = "execute" /\ steps < max_instructions /\ tape[ip] \in {LT, GT})
       => /\ pc' = "execute"
          /\ head0' = (head0 + TapeLen(tape) - 1) % TapeLen(tape)
          /\ head1' = head1
          /\ tape' = tape]_vars

\* The bracket depth over the indices lo..hi of t, `[` counting +1 and `]` -1.
OpenDepth(t, lo, hi) ==
    Cardinality({k \in lo .. hi : t[k] = LBRACKET})
      - Cardinality({k \in lo .. hi : t[k] = RBRACKET})

\* j is the first index from i upwards where the depth is back at 0.
ClosesAt(t, i, j) ==
    /\ j \in i .. (TapeLen(t) - 1)
    /\ OpenDepth(t, i, j) = 0
    /\ \A k \in i .. (j - 1) : OpenDepth(t, i, k) # 0

\* C13 (SpecExecute): a step that executes `[` while head0 addresses a zero
\* byte goes on at (j+1) mod N when the depth over ip..N-1 first returns to 0
\* at j, and returns UnmatchedBranch when it never does, whatever lies below
\* ip; while head0 addresses a nonzero byte it only advances ip by one.  The
\* tape and the cursors are unchanged.
C13_OpenBracket ==
    [][(pc = "execute" /\ steps < max_instructions /\ tape[ip] = LBRACKET)
       => /\ tape' = tape /\ head0' = head0 /\ head1' = head1
          /\ IF tape[head0] # 0
             THEN pc' = "execute" /\ ip' = (ip + 1) % TapeLen(tape)
             ELSE IF \E j \in DOMAIN tape : ClosesAt(tape, ip, j)
             THEN /\ pc' = "execute"
                  /\ \E j \in DOMAIN tape :
                        /\ ClosesAt(tape, ip, j)
                        /\ ip' = (j + 1) % TapeLen(tape)
             ELSE pc' = "returned" /\ status' = "UnmatchedBranch"]_vars

\* Witness of C13: a `[` executed on a zero byte found no `]` above it, though
\* one lies below, and execute returned UnmatchedBranch.
C13_Witness ==
    /\ pc = "returned"
    /\ status = "UnmatchedBranch"
    /\ tape[ip] = LBRACKET
    /\ tape[head0] = 0
    /\ \E j \in 0 .. (ip - 1) : tape[j] = RBRACKET

\* A second reachable case of C13: the `[` jumped to its `]` at the last
\* index and ip wrapped to 0.
C13_JumpSeen ==
    /\ pc = "execute"
    /\ steps = 2
    /\ TapeLen(tape) >= 3
    /\ ip_in = TapeLen(tape) - 3
    /\ tape[TapeLen(tape) - 2] = LBRACKET
    /\ tape[TapeLen(tape) - 1] = RBRACKET
    /\ tape[head0] = 0
    /\ ip = 0

\* The bracket depth over the indices lo..hi of t, `]` counting +1 and `[` -1.
CloseDepth(t, lo, hi) == 0 - OpenDepth(t, lo, hi)

\* j is the first index from i downwards where the depth is back at 0.
OpensAt(t, i, j) ==
    /\ j \in 0 .. i
    /\ CloseDepth(t, j, i) = 0
    /\ \A k \in (j + 1) .. i : CloseDepth(t, k, i) # 0

\* C14 (SpecExecute): a step that executes `]` while head0 addresses a nonzero
\* byte goes on at j+1 when the depth over ip..0 first returns to 0 at j, and
\* returns UnmatchedBranch when it never does, whatever lies above ip; while
\* head0 addresses a zero byte it only advances ip by one.  The tape and the
\* cursors are unchanged.
C14_CloseBracket ==
    [][(pc = "execute" /\ steps < max_instructions /\ tape[ip] = RBRACKET)
       => /\ tape' = tape /\ head0' = head0 /\ head1' = head1
          /\ IF tape[head0] = 0
             THEN pc' = "execute" /\ ip' = (ip + 1) % TapeLen(tape)
             ELSE IF \E j \in DOMAIN tape : OpensAt(tape, ip, j)
             THEN /\ pc' = "execute"
                  /\ \E j \in DOMAIN tape :
                        /\ OpensAt(tape, ip, j)
                        /\ ip' = j + 1
             ELSE pc' = "returned" /\ status' = "UnmatchedBranch"]_vars

\* Witness of C14: a `]` executed on a nonzero byte found no `[` below it,
\* though one lies above, and execute returned UnmatchedBranch.
C14_Witness ==
    /\ pc = "returned"
    /\ status = "UnmatchedBranch"
    /\ tape[ip] = RBRACKET
    /\ tape[head0] # 0
    /\ \E j \in (ip + 1) .. (TapeLen(tape) - 1) : tape[j] = LBRACKET

\* A second reachable case of C14: the `]` at index 2 jumped back to the `[`
\* at index 0 and the run goes on at index 1.
C14_JumpSeen ==
    /\ pc = "execute"
    /\ steps = 3
    /\ ip_in = 0
    /\ TapeLen(tape) >= 3
    /\ tape[0] = LBRACKET
    /\ tape[2] = RBRACKET
    /\ ip = 1

\* C15 (SpecExecute): while execute runs, and when it has returned or
\* panicked, ip, head0 and head1 are indices of the tape, so the reads
\* tape[ip], tape[head0] and tape[head1] are in bounds.
C15_CursorsInBounds ==
    /\ ip \in DOMAIN tape
    /\ head0 \in DOMAIN tape
    /\ head1 \in DOMAIN tape

\* Witness of C15: without overflow checks, `<` executed at head0 = 0 has
\* wrapped head0 to the last index, and the run goes on.
C15_Witness ==
    /\ pc = "execute"
    /\ ~overflow_checks
    /\ steps = 1
    /\ ip_in = 0
    /\ tape_in[0] = LT
    /\ TapeLen(tape) > 1
    /\ head0 = TapeLen(tape) - 1

\* The tapes t and u differ at most in cell c.
SameExceptAt(t, u, c) ==
    /\ DOMAIN u = DOMAIN t
    /\ \A k \in DOMAIN t \ {c} : u[k] = t[k]

\* C16 (SpecExecute): a step changes at most one cell of the tape: `-`, `+`
\* and `,` at most the cell at head0, `.` at most the cell at head1, which
\* takes the byte at head0; every other byte leaves the tape unchanged.
C16_OneCellPerStep ==
    [][(pc = "execute" /\ steps < max_instructions) =>
          CASE tape[ip] \in {MINUS, PLUS, COMMA} ->
                  SameExceptAt(tape, tape', head0)
            [] tape[ip] = DOT ->
                  /\ SameExceptAt(tape, tape', head1)
                  /\ tape'[head1] = tape[head0]
            [] OTHER -> tape' = tape]_vars

\* Witness of C16: the first step executed `.` and the cell at head1, another
\* cell than the one at head0, took the byte at head0.
C16_Witness ==
    /\ pc = "execute"
    /\ steps = 1
    /\ tape_in[ip_in] = DOT
    /\ head1 # head0
    /\ tape # tape_in
    /\ tape[head1] = tape[head0]

\* C17 (SpecExecute): before its first step execute has head0 at the start
\* position ip, the byte the first step executes, and head1 at
\* (ip + 16) mod N.
C17_CursorsAtStart ==
    (pc = "execute" /\ steps = 0) =>
        /\ ip = ip_in
        /\ head0 = ip
        /\ head1 = (ip + HEAD1_OFFSET) % TapeLen(tape)
        /\ tape[head0] = tape[ip]

\* Witness of C17: execute is about to take its first step with the two
\* cursors on different cells and head1 wrapped past the end of the tape.
C17_Witness ==
    /\ pc = "execute"
    /\ steps = 0
    /\ max_instructions > 0
    /\ head0 = ip_in
    /\ head1 # head0
    /\ head1 < head0

\* C18 (Spec): when a reaction draws the same slot twice, the buffer execute
\* is given is that program followed by a copy of itself, and after the
\* write-back the slot holds the second half of the buffer as the interpreter
\* left it, whatever became of the first half.
C18_SameSlotTwice ==
    program0 = program1 =>
        /\ pc \in {"execute", "returned", "panicked"} =>
              \A i \in 0 .. (PROGRAM_LEN - 1) :
                  /\ tape_in[i] = programs[program0][i]
                  /\ tape_in[PROGRAM_LEN + i] = programs[program0][i]
        /\ (pc = "react" /\ reactions_done > 0) =>
              \A i \in 0 .. (PROGRAM_LEN - 1) :
                  programs[program0][i] = tape[PROGRAM_LEN + i]

\* Witness of C18: a reaction of a slot with itself has been written back,
\* the interpreter having changed the first half of the buffer into something
\* else than the second half the slot now holds.
C18_Witness ==
    /\ pc = "react"
    /\ reactions_done > 0
    /\ program0 = program1
    /\ \E i \in 0 .. (PROGRAM_LEN - 1) :
          /\ tape[i] \notin FillBytes \cup {0}
          /\ tape[i] # tape[PROGRAM_LEN + i]

\* C19 (Spec): a slot changes only in the write-back of a reaction that drew
\* it: every slot other than the two drawn is left as it was.
C19_OtherSlotsUntouched ==
    [][\A p \in DOMAIN programs :
          programs'[p] # programs[p] =>
              (pc = "returned" /\ p \in {program0, program1})]_vars

\* Witness of C19: a reaction that did not draw every slot has been written
\* back and rewrote what it drew.
C19_Witness ==
    /\ pc = "react"
    /\ reactions_done > 0
    /\ DOMAIN programs \ {program0, program1} # {}
    /\ Rewritten(programs[program1])

\* C20 (Spec): each reaction increments exactly one of the two tallies, so
\* while react runs they sum to the number of reactions done, and the
\* snapshot react returns has num_timed_out + num_unmatched_branch =
\* num_reactions.
C20_TalliesSumToReactions ==
    [][/\ reactions_done' = reactions_done + 1 =>
            \/ /\ num_timed_out' = num_timed_out + 1
               /\ num_unmatched_branch' = num_unmatched_branch
            \/ /\ num_timed_out' = num_timed_out
               /\ num_unmatched_branch' = num_unmatched_branch + 1
       /\ pc' = "react" =>
            num_timed_out' + num_unmatched_branch' = reactions_done'
       /\ (pc = "react" /\ pc' = "idle") =>
            stats'.num_timed_out + stats'.num_unmatched_branch
               = num_reactions]_vars

\* Witness of C20: react has returned a snapshot of two reactions, one of
\* each outcome.
C20_Witness ==
    /\ pc = "idle"
    /\ calls > 0
    /\ stats.num_timed_out = 1
    /\ stats.num_unmatched_branch = 1

====
